---- MODULE Spec2Model ----
(***************************************************************************)
(* Model of the playback process of ByteBite_AdSystem (src/ad_display.py): *)
(* the TCP command handlers, the bounded ad queue, the fade state machine  *)
(* (update_fade / start_new_ad), the renderer and the main loop.           *)
(*                                                                         *)
(* Text is modelled as a sequence of tokens: a token is either the         *)
(* separator ":", a blank " ", or a run of other characters.               *)
(* Time is counted in units of 1/UnitsPerSecond second.  The code reads    *)
(* the clock only as the difference time.time() - stage_start_time, which  *)
(* is the variable elapsed; the clock is taken to be non-decreasing.       *)
(***************************************************************************)
EXTENDS Integers, Sequences, FiniteSets, Bags, TLC

\* ------------------------------------------------------------------ bounds
NumHandlers == 2
UnitsPerSecond == 2
MaxStep == 2
VideoFrames == 3

\* --------------------------------------------------------------- constants
MAX_QUEUE_SIZE == 5
FADE_IN_DURATION == 1 * UnitsPerSecond
HOLD_DURATION == 2 * UnitsPerSecond
FADE_OUT_DURATION == 1 * UnitsPerSecond
INITIAL_SIZE == <<1280, 720>>

IDLE == "IDLE"
FADING_IN == "FADING_IN"
HOLDING == "HOLDING"
FADING_OUT == "FADING_OUT"
AdState == {IDLE, FADING_IN, HOLDING, FADING_OUT}

Sizes == {<<1280, 720>>, <<640, 480>>}

\* ------------------------------------------------------------ environment
\* Files present on disk (os.path.isfile).
Files == { <<"/a">>, <<"/v">>, <<"c", ":", "/a">> }

\* Texts a peer may send on a connection.
Commands ==
  { <<"SHOW_IMAGE", ":", "/a">>,
    <<"SHOW_VIDEO", ":", "/v">>,
    <<"SHOW_IMAGE", ":", "c", ":", "/a">>,
    <<"SHOW_IMAGE", ":", " ", "/a", " ">>,
    <<"SHOW_IMAGE", ":", "/missing">>,
    <<"QUIT", " ">>,
    <<"HELLO", ":", "/a">>,
    <<>> }

\* ------------------------------------------------------------------- state
VARIABLES
  ad_queue,            \* deque of <<path, media_type>>
  h_recv,              \* number of handler threads blocked in conn.recv
  h_append,            \* bag of the entries of the handler threads that have
                       \* passed the len(ad_queue) test and not yet appended
  current_media,       \* [kind: "none" | "surface" | "player", path, size]
  current_image_path,  \* <<>> for None, else <<path>>
  current_stage,
  elapsed,             \* time.time() - stage_start_time at the last clock read
  alpha,
  is_video,
  video_player,        \* <<>> for None, else <<[path, opened, pos, size]>>
  open_caps,           \* cv2.VideoCapture streams opened and not yet released
  window_size,         \* <<window_width, window_height>>
  pygame_ok,           \* pygame is initialised (FALSE after pygame.quit())
  main,                \* main thread: "running", "exited", "crashed"
  screen_frame,        \* what the last completed render() put on the display
  \* main.py, the decision process
  media,               \* rows of the media table, in rowid order
  ad_displays,         \* rows of the ad_displays table, in rowid order
  now,                 \* datetime.now() of the decision process, in minutes
  cycle,               \* the last play_media call: event, pick, command sent
  cached_analysis,     \* <<>> for None, else <<[n, event]>>: the n-th result
                       \* dict the analysis worker has made
  best_analysis,       \* <<>>, else what line 661 has read
  loop_pc,             \* where the capture loop is
  worker_pc,           \* where the analysis worker is
  analysis_queue,      \* the analysis buffer, oldest item first
  results_made         \* number of result dicts made so far

playVars == <<ad_queue, h_recv, h_append, current_media, current_image_path,
              current_stage, elapsed, alpha, is_video, video_player, open_caps,
              window_size, pygame_ok, main, screen_frame>>
selectVars == <<media, ad_displays, now, cycle>>
captureVars == <<cached_analysis, best_analysis, loop_pc, worker_pc,
                 analysis_queue, results_made>>
decisionVars == <<selectVars, captureVars>>
vars == <<playVars, selectVars, captureVars>>

handlerVars == <<h_recv, h_append>>
sessionVars == <<current_media, current_image_path, current_stage, elapsed,
                 alpha, is_video, video_player, open_caps>>

NoMedia == [kind |-> "none", path |-> <<>>, size |-> <<0, 0>>]
Blank == [src |-> "blank", alpha |-> 0]

Min(a, b) == IF a < b THEN a ELSE b
Max(a, b) == IF a > b THEN a ELSE b

\* ------------------------------------------------------------ text helpers
RECURSIVE LStrip(_)
LStrip(s) == IF s /= <<>> /\ Head(s) = " " THEN LStrip(Tail(s)) ELSE s

RECURSIVE RStrip(_)
RStrip(s) ==
  IF s /= <<>> /\ s[Len(s)] = " " THEN RStrip(SubSeq(s, 1, Len(s) - 1)) ELSE s

\* str.strip()
Strip(s) == RStrip(LStrip(s))

\* str.startswith(verb + ":")
StartsWith(data, verb) ==
  Len(data) >= 2 /\ data[1] = verb /\ data[2] = ":"

\* data.split(":")[-1]: the text after the last ":"
RECURSIVE LastSegment(_)
LastSegment(s) ==
  IF s = <<>> THEN <<>>
  ELSE IF s[Len(s)] = ":" THEN <<>>
  ELSE Append(LastSegment(SubSeq(s, 1, Len(s) - 1)), s[Len(s)])

\* the path the handler extracts from a SHOW_ command
ParsePath(data) == Strip(LastSegment(data))

ParseType(data) == IF StartsWith(data, "SHOW_IMAGE") THEN "image" ELSE "video"

IsFile(path) == path \in Files

\* variant: the length test written with <=
QueueHasRoom_Inclusive(q) == Len(q) <= MAX_QUEUE_SIZE

\* len(ad_queue) < MAX_QUEUE_SIZE
QueueHasRoom(q) == Len(q) < MAX_QUEUE_SIZE

\* ---------------------------------------------------------- video player
\* VideoPlayer.__init__ on a file that opens
NewVideoPlayer(path, size) ==
  [path |-> path, opened |-> TRUE, pos |-> 0, size |-> size]

\* variant: release leaves the stream open
Release_KeepsOpen(vp) == vp

\* VideoPlayer.release: a released capture has no stream position left
Release(vp) == [vp EXCEPT !.opened = FALSE, !.pos = 0]

\* What the two cap.read() calls of one get_frame can do: "ok" (a read fails
\* only at end-of-stream), "retry" (the first read fails, the read after the
\* rewind succeeds), "fail" (both fail).
ReadOutcomes == {"ok", "retry", "fail"}

\* variant: a failed read gives up at once, without the rewind and re-read
GetFrame_NoRestart(vp, rd) ==
  IF ~vp.opened THEN <<vp, "none">>
  ELSE IF vp.pos < VideoFrames /\ rd = "ok"
       THEN <<[vp EXCEPT !.pos = vp.pos + 1], "frame">>
       ELSE <<vp, "none">>

\* VideoPlayer.get_frame: <<player afterwards, frame or "none">>.
\* When the read fails (at end-of-stream, or before it when rd is not "ok")
\* the stream is rewound to frame 0 and read once more.
GetFrame(vp, rd) ==
  IF ~vp.opened THEN <<vp, "none">>
  ELSE IF vp.pos < VideoFrames /\ rd = "ok"
       THEN <<[vp EXCEPT !.pos = vp.pos + 1], "frame">>
       ELSE IF VideoFrames > 0 /\ rd /= "fail"
            THEN <<[vp EXCEPT !.pos = 1], "frame">>
            ELSE <<[vp EXCEPT !.pos = 0], "none">>

\* variant: the hold ends only past the frame count
VideoAtLastFrame_PastEnd(vp) == vp.pos > VideoFrames

\* variant: a stream left at frame 0 by a failed restart also counts as ended
VideoAtLastFrame_OrFailed(vp) == vp.pos = 0 \/ vp.pos >= VideoFrames - 1

\* cap.get(POS_FRAMES) >= cap.get(FRAME_COUNT) - 1
VideoAtLastFrame(vp) == vp.pos >= VideoFrames - 1

\* ------------------------------------------------------------ fade maths
\* variant: fade-in without the upper clamp
FadeInAlpha_Unclamped(e) == (255 * e) \div FADE_IN_DURATION

\* min(255, int(255 * elapsed / FADE_IN_DURATION))
FadeInAlpha(e) == Min(255, (255 * e) \div FADE_IN_DURATION)

\* variant: fade-out computed with the fade-in ramp
FadeOutAlpha_Rising(e) == Min(255, (255 * e) \div FADE_OUT_DURATION)

\* max(0, 255 - int(255 * elapsed / FADE_OUT_DURATION))
FadeOutAlpha(e) == Max(0, 255 - ((255 * e) \div FADE_OUT_DURATION))

\* variant: fade-in ended one time unit early
FadeInDone_Early(e) == e >= FADE_IN_DURATION - 1

\* elapsed >= FADE_IN_DURATION
FadeInDone(e) == e >= FADE_IN_DURATION
\* variant: the hold of an image ends one clock unit early
HoldDone_Early(e) == e >= HOLD_DURATION - 1

HoldDone(e) == e >= HOLD_DURATION
FadeOutDone(e) == e >= FADE_OUT_DURATION

\* ------------------------------------------------------- playback session
\* The globals update_fade, start_new_ad and render work on, as one record.
Cur ==
  [queue |-> ad_queue, media |-> current_media,
   image_path |-> current_image_path, stage |-> current_stage,
   elapsed |-> elapsed, alpha |-> alpha, is_video |-> is_video,
   vp |-> video_player, caps |-> open_caps]

Surface(path, size) == [kind |-> "surface", path |-> path, size |-> size]
\* current_media naming the VideoPlayer object that video_player also names
PlayerRef == [kind |-> "player", path |-> <<>>, size |-> <<0, 0>>]

\* variant: a new ad shown at once, without the fade-in stage
BeginFadeIn_SkipFade(s) ==
  [s EXCEPT !.stage = HOLDING, !.elapsed = 0, !.alpha = 255]

\* the "Begin fade-in" tail of start_new_ad
BeginFadeIn(s) == [s EXCEPT !.stage = FADING_IN, !.elapsed = 0, !.alpha = 0]

\* variant: the except branch without its return
LoadFailed_FallsThrough(s) ==
  [s EXCEPT !.media = NoMedia, !.is_video = FALSE,
            !.stage = FADING_IN, !.elapsed = 0, !.alpha = 0]

\* the except branches of start_new_ad
LoadFailed(s) == [s EXCEPT !.media = NoMedia, !.is_video = FALSE]

\* the streams left open when player vp is released
CapsAfterRelease(caps, vp) == IF vp.opened THEN caps - 1 ELSE caps

\* start_new_ad(media_path, media_type); ok: the asset loads
start_new_ad(s, path, type, ok, size) ==
  LET s0 == IF s.is_video /\ s.vp /= <<>>
            THEN [s EXCEPT !.vp = <<>>,
                           !.caps = CapsAfterRelease(s.caps, s.vp[1])]
            ELSE s
  IN IF type = "image"
     THEN LET s1 == [s0 EXCEPT !.image_path = <<path>>]
          IN IF ok
             THEN BeginFadeIn([s1 EXCEPT !.media = Surface(path, size),
                                         !.is_video = FALSE])
             ELSE LoadFailed(s1)
     ELSE LET s1 == [s0 EXCEPT !.image_path = <<>>]
          IN IF ok
             THEN BeginFadeIn([s1 EXCEPT
                                 !.vp = <<NewVideoPlayer(path, size)>>,
                                 !.caps = s0.caps + 1,
                                 !.media = PlayerRef,
                                 !.is_video = TRUE])
             ELSE LoadFailed(s1)

\* variant: the entry is taken off the wrong end
PopLeft_Right(q) == SubSeq(q, 1, Len(q) - 1)

\* variant: the head entry is read and left in the queue
PopLeft_Keep(q) == q

\* ad_queue.popleft(): the queue afterwards
PopLeft(q) == Tail(q)

\* variant: a new ad may also start while one is held
IsIdle_OrHolding(s) ==
  s.stage = IDLE \/ (s.stage = HOLDING /\ s.queue /= <<>>)

\* current_stage == AdState.IDLE, the only stage that takes a queue entry
IsIdle(s) == s.stage = IDLE

\* update_fade(); d: clock advance since the last read, ok: the asset loads
update_fade(s, d, ok, size) ==
  LET e == s.elapsed + d
  IN CASE IsIdle(s) ->
            IF s.queue /= <<>>
            THEN start_new_ad([s EXCEPT !.queue = PopLeft(s.queue)],
                              Head(s.queue)[1], Head(s.queue)[2], ok, size)
            ELSE s
       [] s.stage = FADING_IN ->
            LET s1 == [s EXCEPT !.alpha = FadeInAlpha(e), !.elapsed = e]
            IN IF FadeInDone(e)
               THEN [s1 EXCEPT !.stage = HOLDING, !.elapsed = 0]
               ELSE s1
       [] s.stage = HOLDING ->
            IF s.is_video
            THEN IF VideoAtLastFrame(s.vp[1])
                 THEN [s EXCEPT !.stage = FADING_OUT, !.elapsed = 0]
                 ELSE s   \* elapsed is not read again before it is reset
            ELSE IF HoldDone(e)
                 THEN [s EXCEPT !.stage = FADING_OUT, !.elapsed = 0]
                 ELSE [s EXCEPT !.elapsed = e]
       [] s.stage = FADING_OUT ->
            LET s1 == [s EXCEPT !.alpha = FadeOutAlpha(e), !.elapsed = e]
            IN IF FadeOutDone(e)
               THEN [s1 EXCEPT
                       !.stage = IDLE, !.elapsed = 0,
                       !.vp = IF s.is_video /\ s.media.kind /= "none"
                                 /\ s.vp /= <<>>
                              THEN <<Release(s.vp[1])>> ELSE s.vp,
                       !.caps = IF s.is_video /\ s.media.kind /= "none"
                                   /\ s.vp /= <<>>
                                THEN CapsAfterRelease(s.caps, s.vp[1])
                                ELSE s.caps,
                       !.media = NoMedia]
               ELSE s1

\* render(): <<session afterwards, frame put on the display>>
render(s, rd) ==
  IF s.media.kind = "none" THEN <<s, Blank>>
  ELSE IF s.is_video
       THEN LET r == GetFrame(s.vp[1], rd)
            IN <<[s EXCEPT !.vp = <<r[1]>>],
                 IF r[2] = "none" THEN Blank
                 ELSE [src |-> "video", alpha |-> s.alpha]>>
       ELSE <<s, [src |-> "image", alpha |-> s.alpha]>>

\* write a session record back to the globals
StoreSession(s) ==
  /\ current_media' = s.media
  /\ current_image_path' = s.image_path
  /\ current_stage' = s.stage
  /\ elapsed' = s.elapsed
  /\ alpha' = s.alpha
  /\ is_video' = s.is_video
  /\ video_player' = s.vp
  /\ open_caps' = s.caps

Store(s) == ad_queue' = s.queue /\ StoreSession(s)

\* ======================================================== main.py: selection
\* Bounds of the catalog and of the telemetry table.
MaxRows == 2
MaxLog == 2

\* socket.gethostname() of this device, and of another one
device_id == "kiosk1"
OtherDevice == "kiosk2"

\* SQL NULL / None / "": every value Python takes as false
NULL == ""

\* str.lower() on the words of the model that have an upper-case letter
LowerOf ==
  ("Man" :> "man") @@ ("Unknown" :> "unknown") @@ ("Happy" :> "happy")
    @@ ("Morning" :> "morning") @@ ("IMAGE/JPEG" :> "image/jpeg")
Lower(w) == IF w \in DOMAIN LowerOf THEN LowerOf[w] ELSE w

\* Clock readings of the decision process, minutes after midnight:
\* 10:55, 10:58, 11:00 and 17:10.
Times == <<655, 658, 660, 1030>>
NextTime(t) ==
  IF \E i \in 1..(Len(Times) - 1) : Times[i] = t
  THEN Times[(CHOOSE i \in 1..(Len(Times) - 1) : Times[i] = t) + 1]
  ELSE t

\* Paths are sequences of directory and file names below "/".
media_dir == <<"app", "media">>
\* what os.path.exists finds
Disk ==
  { <<"app", "media", "ad1.jpg">>, <<"app", "media", "clip.mp4">>,
    <<"app", "media2", "x.jpg">> }
\* name a is a string prefix of name b
NamePrefix(a, b) == a = b \/ (a = "media" /\ b = "media2")

\* abs_file_path.startswith(abs_media_dir): a prefix test on the text
StartsWithDir(path, dir) ==
  /\ Len(path) >= Len(dir)
  /\ \A i \in 1..(Len(dir) - 1) : path[i] = dir[i]
  /\ NamePrefix(dir[Len(dir)], path[Len(dir)])

\* the number of leading names two paths share
RECURSIVE CommonLen(_, _)
CommonLen(a, b) ==
  IF a = <<>> \/ b = <<>> \/ Head(a) /= Head(b) THEN 0
  ELSE 1 + CommonLen(Tail(a), Tail(b))

\* os.path.relpath(path, dir)
RelPath(path, dir) ==
  LET k == CommonLen(path, dir)
  IN [i \in 1..(Len(dir) - k) |-> ".."] \o SubSeq(path, k + 1, Len(path))

\* os.path.abspath on a path from "/": ".." steps are resolved
RECURSIVE Normalize(_)
Normalize(path) ==
  IF path = <<>> THEN <<>>
  ELSE LET front == Normalize(SubSeq(path, 1, Len(path) - 1))
           last == path[Len(path)]
       IN IF last = ".."
          THEN IF front = <<>> THEN <<>> ELSE SubSeq(front, 1, Len(front) - 1)
          ELSE Append(front, last)

\* os.path.abspath(os.path.join(media_dir, file_path)); a stored path is
\* [abs |-> it starts at "/", parts |-> its names]
ResolvePath(fp) ==
  IF fp.abs THEN Normalize(fp.parts) ELSE Normalize(media_dir \o fp.parts)

\* Arguments store_media is called with.
StoreArgs ==
  { [customer_id |-> "c1", age_range |-> "18-29", gender |-> "Man",
     file_path |-> <<"app", "media", "ad1.jpg">>,
     media_type |-> "IMAGE/JPEG", profit_score |-> 1],
    [customer_id |-> "c1", age_range |-> "18-29", gender |-> "Man",
     file_path |-> <<"app", "media2", "x.jpg">>,
     media_type |-> "image/png", profit_score |-> 0],
    [customer_id |-> "c2", age_range |-> "Unknown", gender |-> "Unknown",
     file_path |-> <<"tmp", "y.jpg">>,
     media_type |-> "image/png", profit_score |-> 3] }

\* Arguments the media sync calls update_database with.
SyncArgs ==
  { [customer_id |-> "c1", age_range |-> "18-29", gender |-> "man",
     file_path |-> <<"app", "media", "clip.mp4">>,
     media_type |-> "video/mp4", profit_score |-> 2,
     mood |-> "Happy", time_of_day |-> "Morning"],
    [customer_id |-> "c2", age_range |-> "18-29", gender |-> "Man",
     file_path |-> <<"app", "media", "ad1.jpg">>,
     media_type |-> "image/jpeg", profit_score |-> 1,
     mood |-> "neutral", time_of_day |-> "none"],
    [customer_id |-> "unknown", age_range |-> "unknown",
     gender |-> "unknown",
     file_path |-> <<"app", "media", "gone.png">>,
     media_type |-> "image/png", profit_score |-> 0,
     mood |-> "neutral", time_of_day |-> "none"],
    [customer_id |-> "unknown", age_range |-> "unknown",
     gender |-> "unknown",
     file_path |-> <<"app", "media", "ad1.jpg">>,
     media_type |-> "unknown", profit_score |-> 0,
     mood |-> "neutral", time_of_day |-> "none"] }

\* (age_range, gender, mood) of the events play_media is called with.
Events ==
  { [age_range |-> "18-29", gender |-> "Man", mood |-> "happy"],
    [age_range |-> "Unknown", gender |-> "Unknown", mood |-> "neutral"] }

\* A row another device wrote, present in some initial catalogs.
ForeignRow ==
  [id |-> 1, customer_id |-> "c9", age_range |-> "18-29", gender |-> "man",
   file_path |-> [abs |-> FALSE, parts |-> <<"ad1.jpg">>],
   media_type |-> "image/jpeg", profit_score |-> 5,
   device_id |-> OtherDevice, mood_target |-> NULL,
   time_of_day_range |-> NULL]
InitialCatalogs == { <<>>, <<ForeignRow>> }

\* the row store_media inserts
StoredRow(tbl, a) ==
  [id |-> Len(tbl) + 1, customer_id |-> a.customer_id,
   age_range |-> Lower(a.age_range), gender |-> Lower(a.gender),
   file_path |-> [abs |-> FALSE, parts |-> RelPath(a.file_path, media_dir)],
   media_type |-> a.media_type, profit_score |-> a.profit_score,
   device_id |-> device_id, mood_target |-> NULL,
   time_of_day_range |-> NULL]

\* store_media: the media table afterwards
store_media(tbl, a) ==
  IF ~StartsWithDir(a.file_path, media_dir) THEN tbl
  ELSE Append(tbl, StoredRow(tbl, a))

\* sync_media.update_database: the media table afterwards
update_database(tbl, a) ==
  Append(tbl,
    [id |-> Len(tbl) + 1, customer_id |-> a.customer_id,
     age_range |-> a.age_range, gender |-> a.gender,
     file_path |-> [abs |-> TRUE, parts |-> a.file_path],
     media_type |-> a.media_type, profit_score |-> a.profit_score,
     device_id |-> device_id, mood_target |-> a.mood,
     time_of_day_range |-> a.time_of_day])

\* get_time_of_day_range, from the hour of the clock reading
get_time_of_day_range(hour) ==
  IF 5 <= hour /\ hour < 11 THEN "morning"
  ELSE IF 11 <= hour /\ hour < 17 THEN "afternoon"
  ELSE IF 17 <= hour /\ hour < 21 THEN "evening"
  ELSE "night"
HourOf(t) == (t \div 60) % 24

\* get_last_display_time: the latest timestamp logged for the media id, or
\* NoTime
NoTime == -1
get_last_display_time(log, media_id) ==
  LET ts == {log[i].timestamp : i \in {k \in 1..Len(log) :
                                          log[k].media_id = media_id}}
  IN IF ts = {} THEN NoTime ELSE CHOOSE t \in ts : \A u \in ts : u <= t

\* variant: rows of every device are candidates
Candidates_AnyDevice(tbl, age_range, gender) ==
  LET Match(row) == row.age_range = age_range /\ row.gender = gender
  IN SelectSeq(tbl, Match)

\* the SELECT of pick_weighted_media: text comparison is exact
Candidates(tbl, age_range, gender) ==
  LET Match(row) ==
        /\ row.age_range = age_range
        /\ row.gender = gender
        /\ row.device_id = device_id
  IN SelectSeq(tbl, Match)

\* Scores are in tenths of a point.
\* variant: the bonus for a long pause has no cap
RecencyTerm_Uncapped(last, t) ==
  IF last = NoTime THEN 0
  ELSE IF t - last < 5 THEN -50
  ELSE t - last - 5

\* the recency term for a last display at time last, read at time t
RecencyTerm(last, t) ==
  IF last = NoTime THEN 0
  ELSE IF t - last < 5 THEN -50
  ELSE Min(t - last - 5, 300)

\* score of one candidate before the floor
Score(row, mood, tod, last, t) ==
  10 * row.profit_score
    + (IF row.time_of_day_range /= NULL
          /\ Lower(row.time_of_day_range) = tod THEN 100 ELSE 0)
    + (IF row.mood_target /= NULL /\ Lower(mood) = Lower(row.mood_target)
       THEN 15000 ELSE 0)
    + RecencyTerm(last, t)

\* variant: the score is taken as computed, without the floor
FinalScore_NoFloor(row, mood, tod, last, t) == Score(row, mood, tod, last, t)

\* final_score = max(score, 1.0)
FinalScore(row, mood, tod, last, t) == Max(Score(row, mood, tod, last, t), 10)

\* The clock reading candidate i is scored with: datetime.now() is read
\* again for every candidate, and from candidate `late` on (0: never) it
\* shows the next reading.
ReadTime(i, late, t) == IF late /= 0 /\ i >= late THEN NextTime(t) ELSE t

\* the scores of the candidates, in catalog order
Weights(cands, mood, log, t, late) ==
  [i \in 1..Len(cands) |->
     FinalScore(cands[i], mood, get_time_of_day_range(HourOf(t)),
                get_last_display_time(log, cands[i].id),
                ReadTime(i, late, t))]

\* the running totals of the roulette loop: upto + item['score']
RECURSIVE Cum(_, _)
Cum(w, i) == IF i = 0 THEN 0 ELSE Cum(w, i - 1) + w[i]
Totals(w) == [i \in 1..Len(w) |-> Cum(w, i)]

\* variant: the loop returns at the first total above r
Roulette_Strict(c, r) ==
  IF \E i \in 1..Len(c) : c[i] > r
  THEN CHOOSE i \in 1..Len(c) : c[i] > r /\ \A k \in 1..(i - 1) : c[k] <= r
  ELSE 0

\* the roulette loop over running totals c: the first index whose total
\* reaches r, 0 when the loop ends without a return
Roulette(c, r) ==
  IF \E i \in 1..Len(c) : c[i] >= r
  THEN CHOOSE i \in 1..Len(c) : c[i] >= r /\ \A k \in 1..(i - 1) : c[k] < r
  ELSE 0

\* variant: the draw may lie above the total
Draws_PastTotal(c) ==
  LET total == IF c = <<>> THEN 0 ELSE c[Len(c)]
  IN {r \in {0, 1} \cup {c[i] : i \in 1..Len(c)}
              \cup {c[i] + 1 : i \in 1..Len(c)} : r <= total + 1}

\* values of random.uniform(0, total) around every boundary of the wheel
Draws(c) ==
  LET total == IF c = <<>> THEN 0 ELSE c[Len(c)]
  IN {r \in {0, 1} \cup {c[i] : i \in 1..Len(c)}
              \cup {c[i] + 1 : i \in 1..Len(c)} : r <= total}

NoPick ==
  [media_id |-> 0, customer_id |-> NULL,
   file_path |-> [abs |-> FALSE, parts |-> <<>>], media_type |-> NULL]

\* what pick_weighted_media returns when the roulette loop stops at
\* candidate k
Returned(cands, k) ==
  IF cands = <<>> \/ k = 0 THEN NoPick
  ELSE [media_id |-> cands[k].id, customer_id |-> cands[k].customer_id,
        file_path |-> cands[k].file_path,
        media_type |-> cands[k].media_type]

\* pick_weighted_media(age_range, gender, mood) at clock reading t, with
\* draw r
pick_weighted_media(tbl, log, ev, t, late, r) ==
  LET cands == Candidates(tbl, Lower(ev.age_range), Lower(ev.gender))
  IN Returned(cands,
              Roulette(Totals(Weights(cands, ev.mood, log, t, late)), r))

NoCommand == [verb |-> NULL, path |-> <<>>]

\* variant: the file is not looked for
CommandFor_NoExistsCheck(pick) ==
  LET abs_file_path == ResolvePath(pick.file_path)
  IN IF pick = NoPick THEN NoCommand
     ELSE IF Lower(pick.media_type)
               \in {"image/jpg", "image/jpeg", "image/png"}
          THEN [verb |-> "SHOW_IMAGE", path |-> abs_file_path]
          ELSE IF Lower(pick.media_type)
                    \in {"video/mp4", "video/avi", "video/mov"}
               THEN [verb |-> "SHOW_VIDEO", path |-> abs_file_path]
               ELSE NoCommand

\* the command play_media builds for a pick
CommandFor(pick) ==
  LET abs_file_path == ResolvePath(pick.file_path)
  IN IF pick = NoPick \/ abs_file_path \notin Disk THEN NoCommand
     ELSE IF Lower(pick.media_type)
               \in {"image/jpg", "image/jpeg", "image/png"}
          THEN [verb |-> "SHOW_IMAGE", path |-> abs_file_path]
          ELSE IF Lower(pick.media_type)
                    \in {"video/mp4", "video/avi", "video/mov"}
               THEN [verb |-> "SHOW_VIDEO", path |-> abs_file_path]
               ELSE NoCommand

\* log_ad_display: the ad_displays table afterwards
\* variant: one record per asset, rewritten at each display
log_ad_display_Upsert(log, pick, t) ==
  LET rec == [media_id |-> pick.media_id, customer_id |-> pick.customer_id,
              timestamp |-> t, device_id |-> device_id]
  IN IF \E i \in 1..Len(log) : log[i].media_id = pick.media_id
     THEN [i \in 1..Len(log) |->
             IF log[i].media_id = pick.media_id THEN rec ELSE log[i]]
     ELSE Append(log, rec)
log_ad_display(log, pick, t) ==
  Append(log, [media_id |-> pick.media_id, customer_id |-> pick.customer_id,
               timestamp |-> t, device_id |-> device_id])

NoCycle ==
  [event |-> [age_range |-> NULL, gender |-> NULL, mood |-> NULL],
   pick |-> NoPick, command |-> NoCommand, delivered |-> FALSE]

\* ---------------------------------------------------------------- actions
\* store_media is called
StoreMedia(a) ==
  /\ Len(media) < MaxRows
  /\ media' = store_media(media, a)
  /\ UNCHANGED <<ad_displays, now, cycle, playVars, captureVars>>

\* the media sync inserts a row
UpdateDatabase(a) ==
  /\ Len(media) < MaxRows
  /\ media' = update_database(media, a)
  /\ UNCHANGED <<ad_displays, now, cycle, playVars, captureVars>>

\* time passes between two calls
Tock ==
  /\ NextTime(now) /= now
  /\ now' = NextTime(now)
  /\ UNCHANGED <<media, ad_displays, cycle, playVars, captureVars>>

\* The candidate from which the clock may show its next reading.
Lates(cands) == IF NextTime(now) = now THEN {0} ELSE 0..Len(cands)

\* play_media(age_range, gender, mood): pick_weighted_media with its SELECT
\* and its scores computed once, then the command and the telemetry row;
\* delivered: send_ad_command reached the playback process
play_media(ev) ==
  /\ Len(ad_displays) < MaxLog
  /\ \E cands \in {Candidates(media, Lower(ev.age_range), Lower(ev.gender))} :
       \E late \in Lates(cands) :
         \E c \in {Totals(Weights(cands, ev.mood, ad_displays, now, late))},
            t \in {IF late \in 1..Len(cands) THEN NextTime(now) ELSE now} :
           \E r \in Draws(c) :
             \E pick \in {Returned(cands, Roulette(c, r))} :
               \E command \in {CommandFor(pick)} :
                 \E delivered \in IF command = NoCommand
                                  THEN {FALSE} ELSE BOOLEAN :
                   /\ cycle' = [event |-> ev, pick |-> pick,
                                command |-> command,
                                delivered |-> delivered]
                   /\ ad_displays' =
                        IF command = NoCommand THEN ad_displays
                        ELSE log_ad_display(ad_displays, pick, t)
                   /\ now' = t
  /\ UNCHANGED <<media, playVars>>

\* play_media is called for an event
PlayMedia(ev) == play_media(ev) /\ UNCHANGED captureVars

\* ============================= main.py: capture loop and analysis worker
MaxEvents == 2
ANALYSIS_MAXSIZE == 5

\* The face regions the capture loop queues, told apart by their pixels.
Items == {"face1", "face2"}

\* queue.Queue(maxsize=5): full(), empty(), and what get() and put() leave
\* once they return
full(q) == Len(q) = ANALYSIS_MAXSIZE
empty(q) == Len(q) = 0
\* variant: get() takes the newest item
get_Newest(q) == SubSeq(q, 1, Len(q) - 1)
get(q) == Tail(q)
put(q, item) == Append(q, item)

\* Catalogs the capture loop runs with.
CaptureCatalogs == {store_media(<<>>, a) : a \in StoreArgs}

\* line 660: if cached_analysis
LoopTest ==
  /\ loop_pc = "test"
  /\ loop_pc' = IF cached_analysis /= <<>> THEN "bind" ELSE "detect"
  /\ UNCHANGED <<cached_analysis, best_analysis, worker_pc, analysis_queue,
                 results_made, selectVars, playVars>>

\* lines 661-665: best_analysis = cached_analysis and its fields
LoopBind ==
  /\ loop_pc = "bind"
  /\ best_analysis' = cached_analysis
  /\ loop_pc' = "play"
  /\ UNCHANGED <<cached_analysis, worker_pc, analysis_queue, results_made,
                 selectVars, playVars>>

\* line 668: play_media(age_range, gender, mood)
LoopPlay ==
  /\ loop_pc = "play"
  /\ play_media(best_analysis[1].event)
  /\ loop_pc' = "clear"
  /\ UNCHANGED <<cached_analysis, best_analysis, worker_pc, analysis_queue,
                 results_made>>

\* line 669: cached_analysis = None; best_analysis is not read again before
\* line 661 assigns it
LoopClear ==
  /\ loop_pc = "clear"
  /\ cached_analysis' = <<>>
  /\ best_analysis' = <<>>
  /\ loop_pc' = "detect"
  /\ UNCHANGED <<worker_pc, analysis_queue, results_made, selectVars,
                 playVars>>

\* lines 672-697 and 701-702: detection; with a face to queue, the test
\* analysis_queue.full(); with none (or none left), the next iteration
LoopDetect(face) ==
  /\ loop_pc = "detect"
  /\ loop_pc' = IF ~face THEN "test"
                ELSE IF full(analysis_queue) THEN "get"
                ELSE "put"
  /\ UNCHANGED <<cached_analysis, best_analysis, worker_pc, analysis_queue,
                 results_made, selectVars, playVars>>

\* line 698: analysis_queue.get(), which waits for an item
LoopGet ==
  /\ loop_pc = "get"
  /\ ~empty(analysis_queue)
  /\ analysis_queue' = get(analysis_queue)
  /\ loop_pc' = "put"
  /\ UNCHANGED <<cached_analysis, best_analysis, worker_pc, results_made,
                 selectVars, playVars>>

\* line 699: analysis_queue.put((face_region, frame.copy())), which waits
\* for room; then the next face of the frame
LoopPut(item) ==
  /\ loop_pc = "put"
  /\ ~full(analysis_queue)
  /\ analysis_queue' = put(analysis_queue, item)
  /\ loop_pc' = "detect"
  /\ UNCHANGED <<cached_analysis, best_analysis, worker_pc, results_made,
                 selectVars, playVars>>

\* line 212: if not analysis_queue.empty()
WorkerTest ==
  /\ worker_pc = "test"
  /\ ~empty(analysis_queue)
  /\ worker_pc' = "get"
  /\ UNCHANGED <<cached_analysis, best_analysis, loop_pc, analysis_queue,
                 results_made, selectVars, playVars>>

\* line 213: analysis_queue.get(), which waits for an item
WorkerGet ==
  /\ worker_pc = "get"
  /\ ~empty(analysis_queue)
  /\ analysis_queue' = get(analysis_queue)
  /\ worker_pc' = "analyze"
  /\ UNCHANGED <<cached_analysis, best_analysis, loop_pc, results_made,
                 selectVars, playVars>>

\* lines 214-291 with a result: cached_analysis = analysis_result
WorkerAnalyze(ev) ==
  /\ worker_pc = "analyze"
  /\ results_made < MaxEvents
  /\ results_made' = results_made + 1
  /\ cached_analysis' = <<[n |-> results_made + 1, event |-> ev]>>
  /\ worker_pc' = "test"
  /\ UNCHANGED <<best_analysis, loop_pc, analysis_queue, selectVars,
                 playVars>>

\* lines 214-291 without one: the item came within cache_duration of the
\* last analysis, or the analysis raised
WorkerSkip ==
  /\ worker_pc = "analyze"
  /\ worker_pc' = "test"
  /\ UNCHANGED <<cached_analysis, best_analysis, loop_pc, analysis_queue,
                 results_made, selectVars, playVars>>

\* ------------------------------------------------------------------- Init
InitPlayback ==
  /\ ad_queue = <<>>
  /\ h_recv = 0
  /\ h_append = EmptyBag
  /\ current_media = NoMedia
  /\ current_image_path = <<>>
  /\ current_stage = IDLE
  /\ elapsed = 0
  /\ alpha = 0
  /\ is_video = FALSE
  /\ video_player = <<>>
  /\ open_caps = 0
  /\ window_size = INITIAL_SIZE
  /\ pygame_ok = TRUE
  /\ main = "running"
  /\ screen_frame = Blank

\* the capture loop and the analysis worker at their start
InitLoop ==
  /\ cached_analysis = <<>>
  /\ best_analysis = <<>>
  /\ loop_pc = "test"
  /\ worker_pc = "test"
  /\ analysis_queue = <<>>
  /\ results_made = 0

\* the playback process alone: the decision process has not started
Init ==
  /\ InitPlayback
  /\ media = <<>>
  /\ ad_displays = <<>>
  /\ now = Times[1]
  /\ cycle = NoCycle
  /\ InitLoop

\* The process is alive while the main thread has not ended: the server and
\* handler threads are daemon threads.
Alive == main = "running"

\* The end of the main thread ends the process: the daemon threads stop
\* where they are and the queue is gone with the process.
ProcessEnds ==
  /\ ad_queue' = <<>>
  /\ h_recv' = 0
  /\ h_append' = EmptyBag

\* ---------------------------------------------------------------- network
\* Handler threads are told apart only by where they are: h_recv counts those
\* blocked in recv, h_append holds those between the length test and append.
LiveHandlers == h_recv + BagCardinality(h_append)

\* variant: a connection is accepted only when no handler is at work
Accept_Serial ==
  /\ Alive
  /\ LiveHandlers = 0
  /\ h_recv' = h_recv + 1
  /\ UNCHANGED <<ad_queue, h_append, sessionVars, window_size, pygame_ok,
                 main, screen_frame,
                 decisionVars>>

\* server_thread: accept a connection and start a handler thread for it,
\* which blocks in conn.recv
Accept ==
  /\ Alive
  /\ LiveHandlers < NumHandlers
  /\ h_recv' = h_recv + 1
  /\ UNCHANGED <<ad_queue, h_append, sessionVars, window_size, pygame_ok,
                 main, screen_frame,
                 decisionVars>>

\* variant: any text with a ":" after its first word is taken as a command
Branch_AnyVerb(raw) ==
  LET data == Strip(raw)
  IN IF data = <<>> THEN "drop"
     ELSE IF Len(data) >= 2 /\ data[2] = ":"
          THEN "show"
          ELSE IF data = <<"QUIT">> THEN "quit" ELSE "drop"

\* the branch of handle_client_connection a received text takes: "show",
\* "quit", or "drop" (empty text, or neither a SHOW_ command nor QUIT)
Branch(raw) ==
  LET data == Strip(raw)
  IN IF data = <<>> THEN "drop"
     ELSE IF StartsWith(data, "SHOW_IMAGE") \/ StartsWith(data, "SHOW_VIDEO")
          THEN "show"
          ELSE IF data = <<"QUIT">> THEN "quit" ELSE "drop"

\* the entry the handler builds from a SHOW_ command
EntryOf(raw) == <<ParsePath(Strip(raw)), ParseType(Strip(raw))>>

\* the parse of every text a peer may send
Parsed == [raw \in Commands |-> [branch |-> Branch(raw), entry |-> EntryOf(raw)]]

\* what handle_client_connection decides from the received text and the
\* queue length it reads: "append", "quit" or "drop"
Decide(raw, q) ==
  IF Parsed[raw].branch = "show"
  THEN IF IsFile(Parsed[raw].entry[1]) /\ QueueHasRoom(q)
       THEN "append" ELSE "drop"
  ELSE Parsed[raw].branch

\* handle_client_connection up to and including the len(ad_queue) test,
\* for every text but QUIT
Recv(raw) ==
  /\ Alive
  /\ h_recv > 0
  /\ Decide(raw, ad_queue) /= "quit"
  /\ h_recv' = h_recv - 1
  /\ h_append' = IF Decide(raw, ad_queue) = "append"
                 THEN h_append (+) SetToBag({Parsed[raw].entry})
                 ELSE h_append
  /\ UNCHANGED <<ad_queue, sessionVars, window_size, pygame_ok, main,
                 screen_frame, decisionVars>>

\* handle_client_connection on QUIT: pygame.quit(); sys.exit(0).  sys.exit
\* ends only the handler thread; the next pygame call of the main thread
\* raises pygame.error, which ends the main thread and with it the process.
\* When pygame.quit() ran while the iteration was inside update_fade,
\* update_fade still completes (ranUpdate) and render raises before anything
\* is displayed.  No release of the video player is on this path.
RecvQuit(raw, ranUpdate, d, ok) ==
  /\ Alive
  /\ h_recv > 0
  /\ Decide(raw, ad_queue) = "quit"
  /\ pygame_ok' = FALSE
  /\ IF ranUpdate
     THEN StoreSession(update_fade(Cur, d, ok, window_size))
     ELSE UNCHANGED sessionVars
  /\ main' = "crashed"
  /\ ProcessEnds
  /\ UNCHANGED <<window_size, screen_frame, decisionVars>>

\* variant: an appended entry cuts the session in progress short
AppendEntry_Preempts(e) ==
  /\ Alive
  /\ BagIn(e, h_append)
  /\ ad_queue' = Append(ad_queue, e)
  /\ h_append' = h_append (-) SetToBag({e})
  /\ current_stage' = IF current_stage = HOLDING THEN FADING_OUT
                      ELSE current_stage
  /\ UNCHANGED <<h_recv, current_media, current_image_path, elapsed, alpha,
                 is_video, video_player, open_caps, window_size, pygame_ok,
                 main, screen_frame, decisionVars>>

\* handle_client_connection: ad_queue.append, after the test has passed
AppendEntry(e) ==
  /\ Alive
  /\ BagIn(e, h_append)
  /\ ad_queue' = Append(ad_queue, e)
  /\ h_append' = h_append (-) SetToBag({e})
  /\ UNCHANGED <<h_recv, sessionVars, window_size, pygame_ok, main,
                 screen_frame, decisionVars>>

\* -------------------------------------------------------------- main loop
\* update_fade(); render(): <<session afterwards, frame put on the display>>
Iterate(d, ok, rd) == render(update_fade(Cur, d, ok, window_size), rd)

\* one iteration of main_loop without events: update_fade(); render()
Tick(d, ok, rd) ==
  /\ Alive
  /\ pygame_ok
  /\ LET r == Iterate(d, ok, rd)
     IN /\ Store(r[1])
        /\ screen_frame' = r[2]
  /\ UNCHANGED <<handlerVars, window_size, pygame_ok, main, decisionVars>>

\* variant: a resize starts the stage over
VideoResize_Restarts(size, ok) ==
  /\ Alive
  /\ pygame_ok
  /\ window_size' = size
  /\ current_media' =
       IF current_image_path /= <<>> /\ ~is_video /\ ok
       THEN Surface(current_image_path[1], size)
       ELSE current_media
  /\ video_player' =
       IF is_video /\ video_player /= <<>>
       THEN <<[video_player[1] EXCEPT !.size = size]>>
       ELSE video_player
  /\ elapsed' = 0
  /\ UNCHANGED <<ad_queue, handlerVars, current_image_path, current_stage,
                 alpha, is_video, open_caps, pygame_ok, main,
                 screen_frame, decisionVars>>

\* the VIDEORESIZE branch of the event loop; ok: the image reloads
VideoResize(size, ok) ==
  /\ Alive
  /\ pygame_ok
  /\ window_size' = size
  /\ current_media' =
       IF current_image_path /= <<>> /\ ~is_video /\ ok
       THEN Surface(current_image_path[1], size)
       ELSE current_media
  /\ video_player' =
       IF is_video /\ video_player /= <<>>
       THEN <<[video_player[1] EXCEPT !.size = size]>>
       ELSE video_player
  /\ UNCHANGED <<ad_queue, handlerVars, current_image_path, current_stage,
                 elapsed, alpha, is_video, open_caps, pygame_ok, main,
                 screen_frame, decisionVars>>

\* pygame.QUIT / Escape: running = False, and the loop ends after the
\* update_fade and render of that iteration: the player is released and the
\* process exits.  Those two calls do what they do in any iteration, so
\* they are the Tick step before this one.  A close is allowed after any
\* step, so the end states are those of the program and some more.
WindowClose ==
  /\ Alive
  /\ pygame_ok
  /\ video_player' = IF is_video /\ video_player /= <<>>
                     THEN <<Release(video_player[1])>>
                     ELSE video_player
  /\ open_caps' = IF is_video /\ video_player /= <<>>
                  THEN CapsAfterRelease(open_caps, video_player[1])
                  ELSE open_caps
  /\ pygame_ok' = FALSE
  /\ main' = "exited"
  /\ ProcessEnds
  /\ UNCHANGED <<current_media, current_image_path, current_stage, elapsed,
                 alpha, is_video, window_size, screen_frame, decisionVars>>

\* The clock advances an iteration can see: the clock is not read in Idle,
\* and what it reads while a video is held is used only as the start of the
\* next stage.
Steps ==
  IF current_stage = IDLE \/ (current_stage = HOLDING /\ is_video)
  THEN {0} ELSE 0..MaxStep

\* The load outcomes an iteration can see: an asset is loaded only when an
\* Idle iteration finds an entry in the queue.
Loads == IF current_stage = IDLE /\ ad_queue /= <<>> THEN BOOLEAN ELSE {TRUE}

\* The reload outcomes a resize can see: only an image is reloaded.
Reloads == IF current_image_path /= <<>> /\ ~is_video THEN BOOLEAN ELSE {TRUE}

\* The read outcomes an iteration can see: frames are read only from an open
\* video player, or from one the iteration itself opens.
Reads ==
  IF \/ is_video /\ video_player /= <<>> /\ video_player[1].opened
     \/ current_stage = IDLE /\ ad_queue /= <<>> /\ Head(ad_queue)[2] = "video"
  THEN ReadOutcomes ELSE {"ok"}

Next ==
  \/ Accept
  \/ \E raw \in Commands : Recv(raw)
  \/ \E e \in BagToSet(h_append) : AppendEntry(e)
  \/ \E d \in Steps, ok \in Loads, rd \in Reads : Tick(d, ok, rd)
  \/ \E size \in Sizes, ok \in Reloads : VideoResize(size, ok)
  \/ WindowClose
  \/ \E raw \in Commands, ranUpdate \in BOOLEAN :
        \E d \in IF ranUpdate THEN Steps ELSE {0},
           ok \in IF ranUpdate THEN Loads ELSE {TRUE} :
          RecvQuit(raw, ranUpdate, d, ok)

Spec == Init /\ [][Next]_vars

\* ------------------------------------------- the decision process alone
\* The catalog is any of the initial catalogs; the playback process is left
\* as it starts.
InitSelect ==
  /\ InitPlayback
  /\ media \in InitialCatalogs
  /\ ad_displays = <<>>
  /\ now = Times[1]
  /\ cycle = NoCycle
  /\ InitLoop

NextSelect ==
  \/ \E a \in StoreArgs : StoreMedia(a)
  \/ \E a \in SyncArgs : UpdateDatabase(a)
  \/ Tock
  \/ \E ev \in Events : PlayMedia(ev)

SpecSelect == InitSelect /\ [][NextSelect]_vars

\* The capture loop and the analysis worker of the decision process.
InitCapture ==
  /\ InitPlayback
  /\ media \in CaptureCatalogs
  /\ ad_displays = <<>>
  /\ now = Times[1]
  /\ cycle = NoCycle
  /\ InitLoop

NextCapture ==
  \/ LoopTest
  \/ LoopBind
  \/ LoopPlay
  \/ LoopClear
  \/ \E face \in BOOLEAN : LoopDetect(face)
  \/ LoopGet
  \/ \E item \in Items : LoopPut(item)
  \/ WorkerTest
  \/ WorkerGet
  \/ \E ev \in Events : WorkerAnalyze(ev)
  \/ WorkerSkip

SpecCapture == InitCapture /\ [][NextCapture]_vars

\* ------------------------------------- the main loop under its scheduling
\* The clock advances an iteration sees when time has passed since the last
\* one: clock.tick(30) makes every iteration wait.
Advances == IF Steps = {0} THEN {0} ELSE Steps \ {0}

\* The playback process that is never told to end: the server and handler
\* threads and the main loop, with no QUIT, no close and no resize.
NextLive ==
  \/ Accept
  \/ \E raw \in Commands : Recv(raw)
  \/ \E e \in BagToSet(h_append) : AppendEntry(e)
  \/ \E d \in Steps, ok \in Loads, rd \in Reads : Tick(d, ok, rd)

\* main_loop runs update_fade and render again and again, and time passes
\* between two iterations.
ClockTick == \E d \in Advances, ok \in Loads, rd \in Reads : Tick(d, ok, rd)

SpecLive == Init /\ [][NextLive]_vars /\ WF_vars(ClockTick)

\* The entries the commands of the peers put in the queue.
QueuedEntries ==
  {Parsed[raw].entry : raw \in {c \in Commands : Decide(c, <<>>) = "append"}}

\* The queues the handlers can have filled before the first iteration.
SessionQueues == UNION {[1..n -> QueuedEntries] : n \in 0..NumHandlers}

\* The main loop alone, with every frame read succeeding up to end-of-stream:
\* the sessions of the entries queued at its start.
InitSession ==
  /\ ad_queue \in SessionQueues
  /\ h_recv = 0
  /\ h_append = EmptyBag
  /\ current_media = NoMedia
  /\ current_image_path = <<>>
  /\ current_stage = IDLE
  /\ elapsed = 0
  /\ alpha = 0
  /\ is_video = FALSE
  /\ video_player = <<>>
  /\ open_caps = 0
  /\ window_size = INITIAL_SIZE
  /\ pygame_ok = TRUE
  /\ main = "running"
  /\ screen_frame = Blank
  /\ media = <<>>
  /\ ad_displays = <<>>
  /\ now = Times[1]
  /\ cycle = NoCycle
  /\ InitLoop

\* an iteration whose frame read, if it makes one, succeeds
GoodTick == \E d \in Steps, ok \in Loads : Tick(d, ok, "ok")

\* such an iteration after time has passed
GoodClockTick == \E d \in Advances, ok \in Loads : Tick(d, ok, "ok")

NextSession ==
  \/ GoodTick
  \/ \E size \in Sizes, ok \in Reloads : VideoResize(size, ok)

SpecSession ==
  InitSession /\ [][NextSession]_vars /\ WF_vars(GoodClockTick)

\* ================================================================ claims
TickStep == \E d \in Steps, ok \in Loads, rd \in Reads : Tick(d, ok, rd)
FailedLoadTick == \E d \in Steps, rd \in Reads : Tick(d, FALSE, rd)
StreamOpen == video_player /= <<>> /\ video_player[1].opened
\* what every iteration of the main loop leaves alone
IterationFrame == UNCHANGED <<handlerVars, window_size, main>>

\* C1: in every reachable state, under any interleaving of the connection
\* handlers and the tick loop, the ad queue holds at most MAX_QUEUE_SIZE
\* entries.
C1_QueueWithinCapacity == Len(ad_queue) <= MAX_QUEUE_SIZE

\* C2: the stage changes only along Idle -> FadingIn -> Holding ->
\* FadingOut -> Idle; no tick, command or resize makes any other change.
StageEdges ==
  { <<IDLE, FADING_IN>>, <<FADING_IN, HOLDING>>,
    <<HOLDING, FADING_OUT>>, <<FADING_OUT, IDLE>> }
C2_StageEdgesOnly ==
  [][current_stage' = current_stage
     \/ <<current_stage, current_stage'>> \in StageEdges]_vars
\* a video session has run through all four edges
C2_Witness ==
  /\ main = "running"
  /\ current_stage = IDLE
  /\ video_player /= <<>>
  /\ ~video_player[1].opened

\* C3: a SHOW_IMAGE / SHOW_VIDEO command for an existing path handled while
\* the queue holds MAX_QUEUE_SIZE entries is rejected: the queue is unchanged
\* and no handler goes on to append the entry.
C3_FullQueueRejects ==
  [][Len(ad_queue) = MAX_QUEUE_SIZE
       => \A raw \in Commands :
            (Parsed[raw].branch = "show" /\ Recv(raw))
              => (ad_queue' = ad_queue /\ h_append' = h_append)]_vars
\* a command is about to be handled while the queue is full
C3_Witness ==
  /\ Len(ad_queue) = MAX_QUEUE_SIZE
  /\ h_recv > 0
  /\ h_append = EmptyBag
  /\ main = "running"

\* C4: after a QUIT command the process has terminated only with any open
\* video stream released.
C4_QuitReleasesStream == main = "crashed" => ~StreamOpen

\* C5: the enqueued path is everything after the first ":" of the command,
\* also when the path itself contains ":".
RECURSIVE AfterFirstColon(_)
AfterFirstColon(s) ==
  IF s = <<>> THEN <<>>
  ELSE IF Head(s) = ":" THEN Tail(s)
  ELSE AfterFirstColon(Tail(s))
C5_PathIsWholePayload ==
  [][\A raw \in Commands :
       (Recv(raw) /\ h_append' /= h_append)
         => BagIn(<<Strip(AfterFirstColon(Strip(raw))), ParseType(Strip(raw))>>,
                  h_append')]_vars

\* C6: in every reachable state alpha lies in 0..255.
C6_AlphaInRange == alpha \in 0..255
\* a fade is under way with alpha strictly inside the range
C6_Witness == current_stage = FADING_OUT /\ alpha \in 1..254

\* C7: within a FadingIn segment alpha never decreases from one tick to the
\* next, and within a FadingOut segment it never increases.
C7_AlphaMonotone ==
  [][/\ (current_stage = FADING_IN /\ current_stage' \in {FADING_IN, HOLDING})
          => alpha' >= alpha
     /\ (current_stage = FADING_OUT /\ current_stage' \in {FADING_OUT, IDLE})
          => alpha' <= alpha]_vars
\* a fade-in has advanced past its first tick
C7_Witness == current_stage = FADING_IN /\ alpha > 0 /\ elapsed > 0

\* C8: alpha is 255 on entry to Holding and throughout Holding, so FadingOut
\* starts from 255; alpha is 0 when FadingOut completes and the stage is Idle
\* again.
C8_HoldingAlpha ==
  [][/\ current_stage' = HOLDING => alpha' = 255
     /\ (current_stage = HOLDING /\ current_stage' = FADING_OUT)
          => alpha' = 255
     /\ (current_stage = FADING_OUT /\ current_stage' = IDLE)
          => alpha' = 0]_vars
\* a hold has lasted beyond the tick that entered it
C8_Witness == current_stage = HOLDING /\ elapsed > 0 /\ ~is_video

\* C9: a tick in Idle with a nonempty queue removes exactly the front entry
\* and, if the asset loads, starts that entry with stage FadingIn and alpha
\* 0; while the process runs the queue otherwise changes only by appends at
\* the tail, so ads start in the order their commands were accepted.
C9_IdlePopsFront ==
  [][/\ (current_stage = IDLE /\ ad_queue /= <<>> /\ TickStep)
          => /\ ad_queue' = Tail(ad_queue)
             /\ current_stage' \in {IDLE, FADING_IN}
             /\ current_media' /= NoMedia
                  => /\ current_stage' = FADING_IN
                     /\ alpha' = 0
                     /\ Head(ad_queue)[2] = "image"
                          => current_media' =
                               Surface(Head(ad_queue)[1], window_size)
                     /\ Head(ad_queue)[2] = "video"
                          => /\ current_media' = PlayerRef
                             /\ video_player'[1].path = Head(ad_queue)[1]
     /\ main' = "running"
          => \/ ad_queue' = ad_queue
             \/ ad_queue /= <<>> /\ ad_queue' = Tail(ad_queue)
             \/ \E e \in BagToSet(h_append) :
                  ad_queue' = Append(ad_queue, e)]_vars
\* an ad has just started while another entry is still waiting
C9_Witness ==
  /\ current_stage = FADING_IN
  /\ elapsed = 0
  /\ alpha = 0
  /\ ad_queue /= <<>>

\* C10: when the asset fails to load at session start, the popped entry is
\* discarded, the stage stays Idle with no content held, and the tick loop
\* goes on (the next Idle tick takes the next entry, as in C9).
C10_LoadFailureSkips ==
  [][(current_stage = IDLE /\ ad_queue /= <<>> /\ FailedLoadTick)
       => /\ ad_queue' = Tail(ad_queue)
          /\ current_stage' = IDLE
          /\ current_media' = NoMedia
          /\ screen_frame' = Blank
          /\ main' = "running" /\ pygame_ok']_vars
\* Idle with no content after an image was tried, the next entry waiting
C10_Witness ==
  /\ current_stage = IDLE
  /\ current_media = NoMedia
  /\ current_image_path /= <<>>
  /\ video_player = <<>>
  /\ ad_queue /= <<>>
  /\ main = "running"

C12_ImageHoldDuration ==
  [][(current_stage = HOLDING /\ ~is_video) =>
       /\ elapsed < HOLD_DURATION
       /\ current_stage' /= HOLDING =>
            /\ current_stage' = FADING_OUT
            /\ elapsed + MaxStep >= HOLD_DURATION
       /\ IterationFrame =>
            \A d \in Steps :
              Tick(d, TRUE, "ok") =>
                current_stage' = IF elapsed + d >= HOLD_DURATION
                                 THEN FADING_OUT ELSE HOLDING]_vars
\* an image has just left Holding for FadingOut
C12_Witness ==
  /\ current_stage = FADING_OUT
  /\ ~is_video
  /\ current_media.kind = "surface"
  /\ elapsed = 0
  /\ alpha = 255

\* C13: when the frame read of a playing video fails, the stream is rewound
\* and read once more; when that read succeeds the iteration shows frame 0,
\* when it fails too the iteration shows no content frame; either way stage
\* and alpha are those update_fade computed.
C13_FailedReadRestartsOnce ==
  (Alive /\ pygame_ok) =>
    \A d \in Steps, ok \in Loads :
      LET u == update_fade(Cur, d, ok, window_size)
          again == Iterate(d, ok, "retry")
          none == Iterate(d, ok, "fail")
      IN (u.is_video /\ u.media.kind /= "none" /\ u.vp /= <<>>
            /\ u.vp[1].opened) =>
           /\ again[2] = [src |-> "video", alpha |-> u.alpha]
           /\ again[1].vp[1].pos = 1
           /\ again[1].stage = u.stage /\ again[1].alpha = u.alpha
           /\ none[2] = Blank
           /\ none[1].vp[1].pos = 0
           /\ none[1].stage = u.stage /\ none[1].alpha = u.alpha
\* a playing video has shown no frame because both reads failed
C13_Witness ==
  /\ main = "running"
  /\ is_video
  /\ StreamOpen
  /\ current_stage = FADING_OUT
  /\ alpha > 0
  /\ video_player[1].pos = 0
  /\ screen_frame = Blank

\* C14: the step that completes FadingOut closes the video stream and drops
\* the content handle, and no video stream is open in any state whose stage
\* is Idle.
C14_IdleHasNoOpenStream ==
  [][/\ (current_stage = FADING_OUT /\ current_stage' = IDLE) =>
          (current_media' = NoMedia /\ ~StreamOpen')
     /\ current_stage' = IDLE => (~StreamOpen' /\ open_caps' = 0)]_vars
\* a video session has ended and its stream is closed
C14_Witness ==
  /\ main = "running"
  /\ current_stage = IDLE
  /\ is_video
  /\ video_player /= <<>>
  /\ ~video_player[1].opened
  /\ open_caps = 0
  /\ current_media = NoMedia

\* C15: a queue entry is taken and a session begun only from Idle, and across
\* commands, ticks, load and read failures and resizes at most one video
\* stream is open, the one video_player names.
C15_OneSessionOneStream ==
  [][/\ (current_stage' = FADING_IN /\ current_stage /= FADING_IN) =>
          current_stage = IDLE
     /\ (main' = "running" /\ Len(ad_queue') < Len(ad_queue)) =>
          current_stage = IDLE
     /\ open_caps' <= 1
     /\ open_caps' = 1 => StreamOpen']_vars
\* a video plays while a second video waits in the queue
C15_Witness ==
  /\ main = "running"
  /\ current_stage = HOLDING
  /\ StreamOpen
  /\ open_caps = 1
  /\ Len(ad_queue) >= 2
  /\ Head(ad_queue)[2] = "video"

\* C16: a SHOW_IMAGE / SHOW_VIDEO command whose path (the text after the
\* verb) exists, handled while the queue holds fewer than MAX_QUEUE_SIZE
\* entries, makes its handler append the entry (path, type), and the append
\* puts exactly that entry at the tail; when the path does not exist the
\* queue is unchanged and nothing is left to append.
CommandPath(raw) == Strip(AfterFirstColon(Strip(raw)))
C16_ShowAppendsEntry ==
  [][/\ \A raw \in Commands :
          (Parsed[raw].branch = "show" /\ Len(ad_queue) < MAX_QUEUE_SIZE
             /\ Recv(raw)) =>
            /\ ad_queue' = ad_queue
            /\ h_append' =
                 IF IsFile(CommandPath(raw))
                 THEN h_append (+)
                        SetToBag({<<CommandPath(raw), ParseType(Strip(raw))>>})
                 ELSE h_append
     /\ \A e \in BagToSet(h_append) :
          AppendEntry(e) => ad_queue' = Append(ad_queue, e)]_vars

\* C17: a text that is empty, or whose verb is none of SHOW_IMAGE,
\* SHOW_VIDEO and QUIT, is ignored: its handler ends with the queue, the
\* stage, alpha and the current content unchanged and nothing to append.
UnknownVerb(raw) ==
  \/ Strip(raw) = <<>>
  \/ Head(Strip(raw)) \notin {"SHOW_IMAGE", "SHOW_VIDEO", "QUIT"}
UnknownTexts == {raw \in Commands : UnknownVerb(raw)}
C17_UnknownCommandIgnored ==
  [][\A raw \in UnknownTexts :
       Recv(raw) =>
         /\ h_recv' = h_recv - 1
         /\ h_append' = h_append
         /\ UNCHANGED <<ad_queue, current_stage, alpha, current_media,
                        current_image_path, is_video, video_player, main>>]_vars
\* a connection is open while an ad is held and others wait
C17_Witness ==
  /\ main = "running"
  /\ h_recv > 0
  /\ current_stage = HOLDING
  /\ alpha = 255
  /\ ad_queue /= <<>>

\* C18: while a handler is blocked in recv, a further connection can be
\* accepted, a handler that has received a command while another stays
\* blocked can go on with it, and a handler past the length test can append.
C18_BlockedPeerDoesNotBlock ==
  (Alive /\ h_recv >= 1) =>
    /\ LiveHandlers < NumHandlers => ENABLED Accept
    /\ h_recv >= 2 =>
         \A raw \in Commands :
           Parsed[raw].branch /= "quit" =>
             ENABLED (Recv(raw) /\ h_recv' >= 1)
    /\ \A e \in BagToSet(h_append) : ENABLED AppendEntry(e)
\* one handler is blocked in recv while another is about to append
C18_Witness ==
  /\ main = "running"
  /\ h_recv >= 1
  /\ h_append /= EmptyBag
  /\ Len(ad_queue) < MAX_QUEUE_SIZE

\* C19: the asset a selection returns is a row of the catalog written for
\* this device whose age_range and gender are those of the event (the event's
\* values in lower case, as the query compares them).
C19_PickWithinFilter ==
  cycle.pick /= NoPick =>
    \E i \in 1..Len(media) :
      /\ media[i].id = cycle.pick.media_id
      /\ media[i].file_path = cycle.pick.file_path
      /\ media[i].age_range = Lower(cycle.event.age_range)
      /\ media[i].gender = Lower(cycle.event.gender)
      /\ media[i].device_id = device_id
\* an asset was returned from a catalog that also holds a row of another
\* device and a row of another audience
C19_Witness ==
  /\ cycle.pick /= NoPick
  /\ Len(media) >= 2
  /\ media[1] = ForeignRow
  /\ cycle.event.gender = "Man"

\* C20: every row of this device whose age_range and gender equal the
\* event's when letter case is ignored is a candidate of the selection.
C20_MatchIgnoresCase ==
  \A ev \in Events :
    \A i \in 1..Len(media) :
      (/\ media[i].device_id = device_id
       /\ Lower(media[i].age_range) = Lower(ev.age_range)
       /\ Lower(media[i].gender) = Lower(ev.gender)) =>
        \E k \in 1..Len(Candidates(media, Lower(ev.age_range),
                                   Lower(ev.gender))) :
          Candidates(media, Lower(ev.age_range), Lower(ev.gender))[k]
            = media[i]

\* Inputs of one selection in the current state.
CandsOf(ev) == Candidates(media, Lower(ev.age_range), Lower(ev.gender))
LastOf(row) == get_last_display_time(ad_displays, row.id)
TodNow == get_time_of_day_range(HourOf(now))
WeightsOf(ev, late) == Weights(CandsOf(ev), ev.mood, ad_displays, now, late)

\* C21: the final score of every candidate is at least 1.0 (10 tenths),
\* whatever its profit_score, its time-of-day and mood match and its play
\* history, and whenever the clock is read.
C21_ScoreAtLeastOne ==
  \A ev \in Events :
    \A cands \in {CandsOf(ev)} :
      \A late \in Lates(cands) :
        \A w \in {Weights(cands, ev.mood, ad_displays, now, late)} :
          \A i \in 1..Len(cands) : w[i] >= 10
\* a selection has run and a candidate's score before the floor is negative
C21_Witness ==
  /\ cycle.pick /= NoPick
  /\ \E ev \in Events :
       \E i \in 1..Len(CandsOf(ev)) :
         Score(CandsOf(ev)[i], ev.mood, TodNow, LastOf(CandsOf(ev)[i]), now)
           < 0

\* C22: of two candidates with the same profit_score, mood target and
\* time-of-day target, the one last played under 5 minutes ago has a
\* strictly lower final score than the one never played.
C22_RecentPlayScoresLower ==
  \A ev \in Events :
    \A i, j \in 1..Len(CandsOf(ev)) :
      (/\ CandsOf(ev)[i].profit_score = CandsOf(ev)[j].profit_score
       /\ CandsOf(ev)[i].mood_target = CandsOf(ev)[j].mood_target
       /\ CandsOf(ev)[i].time_of_day_range = CandsOf(ev)[j].time_of_day_range
       /\ LastOf(CandsOf(ev)[i]) /= NoTime
       /\ now - LastOf(CandsOf(ev)[i]) < 5
       /\ LastOf(CandsOf(ev)[j]) = NoTime) =>
        WeightsOf(ev, 0)[i] < WeightsOf(ev, 0)[j]

\* The buckets of the day and the terms of the score as the documentation
\* gives them, in tenths of a point.
BucketOf(hour) ==
  CASE hour \in 5..10 -> "morning"
    [] hour \in 11..16 -> "afternoon"
    [] hour \in 17..20 -> "evening"
    [] OTHER -> "night"
SameTarget(target, value) == target /= NULL /\ Lower(target) = Lower(value)
DocRecency(last, t) ==
  CASE last = NoTime -> 0
    [] last /= NoTime /\ t - last < 5 -> -50
    [] OTHER -> Min(t - last - 5, 300)
DocScore(row, ev, last, t) ==
  Max(10, 10 * row.profit_score
            + (IF SameTarget(row.time_of_day_range, BucketOf(HourOf(now)))
               THEN 100 ELSE 0)
            + (IF SameTarget(row.mood_target, ev.mood) THEN 15000 ELSE 0)
            + DocRecency(last, t))

\* C23: the score of a candidate is max(1, profit_score + 10 when its
\* time-of-day target is the current bucket + 1500 when its mood target is
\* the event's mood + recency term), the recency term being 0 without a
\* play record, -5 under 5 minutes after the last play and otherwise
\* min((elapsed minutes - 5) * 0.1, 30), which lies between 0 and 30.
C23_ScoreFormula ==
  /\ \A hour \in 0..23 : get_time_of_day_range(hour) = BucketOf(hour)
  /\ \A ev \in Events :
       \A cands \in {CandsOf(ev)} :
         \A late \in Lates(cands) :
           \A w \in {Weights(cands, ev.mood, ad_displays, now, late)} :
             \A i \in 1..Len(cands) :
               \A last \in {LastOf(cands[i])},
                  t \in {ReadTime(i, late, now)} :
                 /\ w[i] = DocScore(cands[i], ev, last, t)
                 /\ (last /= NoTime /\ t - last >= 5) =>
                      /\ RecencyTerm(last, t) >= 0
                      /\ RecencyTerm(last, t) <= 300
\* a selection has run and a candidate was last played so long ago that its
\* bonus is at the cap
C23_Witness ==
  /\ cycle.pick /= NoPick
  /\ \E ev \in Events :
       \E i \in 1..Len(CandsOf(ev)) :
         /\ LastOf(CandsOf(ev)[i]) /= NoTime
         /\ now - LastOf(CandsOf(ev)[i]) - 5 > 300

\* The sum of the scores of the first n candidates.
RECURSIVE SumTo(_, _)
SumTo(w, n) == IF n = 0 THEN 0 ELSE SumTo(w, n - 1) + w[n]

\* C24: with a draw r in [0, T], T the sum of the scores, the selection
\* returns the first candidate in catalog order whose cumulative score is
\* at least r: the draws that select candidate i are those above the sum of
\* the scores before it, up to that sum plus its own score (and the draw 0
\* for the first), a range as wide as its score.
C24_RouletteWidth ==
  \A ev \in Events :
    \A cands \in {CandsOf(ev)} :
      \A late \in Lates(cands) :
        \A w \in {Weights(cands, ev.mood, ad_displays, now, late)} :
          \A c \in {Totals(w)} :
            \A i \in 1..Len(w) :
              \A before \in {SumTo(w, i - 1)} :
                /\ Roulette(c, IF i = 1 THEN 0 ELSE before + 1) = i
                /\ Roulette(c, before + w[i]) = i
                /\ i = Len(w) => before + w[i] \in Draws(c)
                /\ Returned(cands, i).media_id = cands[i].id
\* a selection over two candidates has returned the second one
C24_Witness ==
  /\ cycle.pick /= NoPick
  /\ Len(CandsOf(cycle.event)) >= 2
  /\ cycle.pick.media_id = CandsOf(cycle.event)[2].id

\* C25: when the candidate list is not empty the selection returns one of
\* the candidates for every draw, never None; a single candidate is always
\* the one returned.
C25_NeverFallsThrough ==
  \A ev \in Events :
    \A cands \in {CandsOf(ev)} :
      cands /= <<>> =>
        \A late \in Lates(cands) :
          \A c \in {Totals(Weights(cands, ev.mood, ad_displays, now,
                                   late))} :
            \A r \in Draws(c) :
              \A k \in {Roulette(c, r)} :
                /\ k \in 1..Len(cands)
                /\ Returned(cands, k) /= NoPick
                /\ Returned(cands, k).media_id = cands[k].id
                /\ Len(cands) = 1 => k = 1
\* the only candidate of an event has been returned
C25_Witness ==
  /\ cycle.pick /= NoPick
  /\ Len(CandsOf(cycle.event)) = 1
  /\ cycle.pick.media_id = CandsOf(cycle.event)[1].id
  /\ Len(media) >= 2

\* C26: within one selection the clock is read once, so two candidates with
\* the same last-play timestamp get the same recency term.
C26_SingleClockRead ==
  \A ev \in Events :
    \A late \in Lates(CandsOf(ev)) :
      \A i, j \in 1..Len(CandsOf(ev)) :
        (/\ LastOf(CandsOf(ev)[i]) /= NoTime
         /\ LastOf(CandsOf(ev)[i]) = LastOf(CandsOf(ev)[j])) =>
          RecencyTerm(LastOf(CandsOf(ev)[i]), ReadTime(i, late, now))
            = RecencyTerm(LastOf(CandsOf(ev)[j]), ReadTime(j, late, now))

\* Media types the playback process has a command for.
SupportedTypes ==
  {"image/jpg", "image/jpeg", "image/png", "video/mp4", "video/avi",
   "video/mov"}
\* The selection yields nothing playable: no candidate, or the file of the
\* selected asset is missing, or its media type is not supported.
Unplayable(pick) ==
  \/ pick = NoPick
  \/ ResolvePath(pick.file_path) \notin Disk
  \/ Lower(pick.media_type) \notin SupportedTypes

\* C27: a call of play_media whose selection yields nothing playable sends
\* no command to the playback process and appends no telemetry record.
C27_NothingPlayableNoEffect ==
  [][(/\ UNCHANGED media
      /\ Unplayable(cycle'.pick)
      /\ cycle'.event \in Events
      /\ PlayMedia(cycle'.event)) =>
       /\ cycle'.command = NoCommand
       /\ ~cycle'.delivered
       /\ ad_displays' = ad_displays]_vars
\* play_media has run for an asset whose file is missing, with a telemetry
\* record of an earlier call in the table
C27_Witness ==
  /\ cycle.pick /= NoPick
  /\ ResolvePath(cycle.pick.file_path) \notin Disk
  /\ Lower(cycle.pick.media_type) \in SupportedTypes
  /\ ad_displays /= <<>>

\* The path lies in the directory: the names of the directory are its first
\* names.
Inside(path, dir) ==
  Len(path) > Len(dir) /\ SubSeq(path, 1, Len(dir)) = dir

\* C28: no command is dispatched for a resolved asset path outside the media
\* root.
C28_NoCommandOutsideRoot ==
  cycle.command /= NoCommand => Inside(cycle.command.path, media_dir)

\* C29: the clear of the retained event discards the event the selection
\* cycle has consumed, never another one: whatever the analysis worker has
\* written meanwhile is kept for a later cycle.
C29_ClearDiscardsConsumedOnly ==
  loop_pc = "clear" => cached_analysis = best_analysis

\* C30: the capture loop is never blocked on the analysis buffer: its
\* discard-oldest get finds an item and its put finds room.
C30_CaptureNeverBlocks ==
  /\ loop_pc = "get" => ~empty(analysis_queue)
  /\ loop_pc = "put" => ~full(analysis_queue)

\* C31: the analysis buffer never holds more than ANALYSIS_MAXSIZE items;
\* the capture loop's discard takes the oldest pending item and keeps the
\* others in their order, and its put makes the new item the newest, behind
\* the items that were pending.
C31_DropOldestKeepsOrder ==
  [][/\ Len(analysis_queue') <= ANALYSIS_MAXSIZE
     /\ (loop_pc = "get" /\ loop_pc' = "put") =>
          /\ Len(analysis_queue') = Len(analysis_queue) - 1
          /\ \A i \in 1..Len(analysis_queue') :
               analysis_queue'[i] = analysis_queue[i + 1]
     /\ (loop_pc = "put" /\ loop_pc' = "detect") =>
          /\ Len(analysis_queue') = Len(analysis_queue) + 1
          /\ analysis_queue'[Len(analysis_queue')] \in Items
          /\ \A i \in 1..Len(analysis_queue) :
               analysis_queue'[i] = analysis_queue[i]]_vars

\* the loop is about to put after a discard from a buffer of two kinds of
\* item, the oldest of which differs from the newest
C31_Witness ==
  /\ loop_pc = "put"
  /\ Len(analysis_queue) = ANALYSIS_MAXSIZE - 1
  /\ analysis_queue[1] /= analysis_queue[Len(analysis_queue)]

C38_RecordOnlyIfDelivered ==
  [][ad_displays' /= ad_displays => cycle'.delivered]_vars

\* C34: a command that arrives while a session is in FadingIn, Holding or
\* FadingOut changes only the queue (and where its handler is): the stage,
\* the stage start time, alpha and the content of the session are unchanged.
C34_CommandLeavesSessionAlone ==
  [][(/\ current_stage \in {FADING_IN, HOLDING, FADING_OUT}
      /\ handlerVars' /= handlerVars
      /\ main' = "running") =>
       /\ UNCHANGED <<current_stage, elapsed, alpha, current_media,
                      current_image_path, is_video, video_player, open_caps>>
       /\ \/ ad_queue' = ad_queue
          \/ /\ Len(ad_queue') = Len(ad_queue) + 1
             /\ SubSeq(ad_queue', 1, Len(ad_queue)) = ad_queue]_vars

\* a session is fading out with a full queue: the session took its entry
\* from a queue of at most MAX_QUEUE_SIZE, so an entry came in since
C34_Witness ==
  /\ current_stage = FADING_OUT
  /\ alpha > 0
  /\ Len(ad_queue) >= MAX_QUEUE_SIZE

\* C35: a resize changes only the surface dimensions and the scaled content
\* (the image reloaded at the new size, the player's target size updated);
\* the stage, the stage start time, alpha and the queue are unchanged and no
\* video stream is opened or closed.
C35_ResizeLeavesSessionAlone ==
  [][window_size' /= window_size =>
       /\ UNCHANGED <<current_stage, elapsed, alpha, ad_queue, open_caps,
                      is_video, current_image_path, handlerVars>>
       /\ \/ current_media' = current_media
          \/ /\ current_image_path /= <<>>
             /\ current_media' = Surface(current_image_path[1], window_size')
       /\ \/ video_player' = video_player
          \/ /\ video_player /= <<>>
             /\ video_player' =
                  <<[video_player[1] EXCEPT !.size = window_size']>>]_vars

\* an image session past its start holds the image reloaded at another size
C35_Witness ==
  /\ current_stage = HOLDING
  /\ elapsed > 0
  /\ ~is_video
  /\ window_size /= INITIAL_SIZE
  /\ current_media = Surface(current_image_path[1], window_size)

\* C36: whenever the stage is Idle no content is held and alpha is 0.
C36_IdleHoldsNothing ==
  current_stage = IDLE => (current_media = NoMedia /\ alpha = 0)

\* C37: under any interleaving of handler appends and tick-loop pops, the
\* queue changes only by a handler appending the entry it accepted, once, or
\* by an Idle iteration popping the head entry and starting that entry; and
\* a session starts only by such a pop.
C37_AppendedOncePoppedOnce ==
  [][main' = "running" =>
       /\ ad_queue' /= ad_queue =>
            \/ /\ UNCHANGED sessionVars
               /\ \E e \in BagToSet(h_append) :
                    /\ ad_queue' = Append(ad_queue, e)
                    /\ h_append' = h_append (-) SetToBag({e})
                    /\ h_recv' = h_recv
            \/ /\ UNCHANGED handlerVars
               /\ current_stage = IDLE
               /\ ad_queue /= <<>>
               /\ ad_queue' = Tail(ad_queue)
               /\ \E ok \in BOOLEAN, rd \in ReadOutcomes :
                    Cur' = render(start_new_ad(
                                    [Cur EXCEPT !.queue = Tail(ad_queue)],
                                    Head(ad_queue)[1], Head(ad_queue)[2],
                                    ok, window_size), rd)[1]
       /\ (current_stage = IDLE /\ current_stage' /= IDLE) =>
            (ad_queue /= <<>> /\ ad_queue' = Tail(ad_queue))]_vars

\* a session has started from the queue while a handler is between its
\* length test and its append, with an entry still waiting
C37_Witness ==
  /\ current_stage = FADING_IN
  /\ BagCardinality(h_append) > 0
  /\ ad_queue /= <<>>

\* C33: a failed load, a failed frame read or a dropped command does not
\* stop the queue from being served: whenever entries wait behind a session,
\* the stage comes back to Idle, where the next iteration pops the head.
C33_QueueServedAfterFailure ==
  (ad_queue /= <<>> /\ current_stage /= IDLE) ~> (current_stage = IDLE)

C40_StreamNeverRewound ==
  [][(/\ current_stage /= IDLE
      /\ is_video
      /\ StreamOpen
      /\ StreamOpen') =>
       video_player'[1].pos >= video_player[1].pos]_vars

====
